---- MODULE Spec2Model ----
(***************************************************************************)
(* The REPL orchestrator (src/js/repl/Repl.js): plugin / env-preset /      *)
(* runtime-polyfill loading, the debounced recompile and the application   *)
(* of worker results to the component state.                               *)
(*                                                                         *)
(* Every handler of the component is one atomic action (the UI thread runs *)
(* a handler and its setState callback to completion).  The worker, the    *)
(* script loader and the debounce timer answer at any later moment and in  *)
(* any order: time is not measured, the timer of _compileToState fires at  *)
(* some point after the last call that armed it.                           *)
(*                                                                         *)
(* Spec is the session.  SpecCompile applies the worker's compile          *)
(* (src/unnamed/part_000) to configs drawn from a bounded set, and         *)
(* SpecPersist runs _persistState and the constructor's restore of the     *)
(* persisted payload in turn.                                              *)
(***************************************************************************)
EXTENDS Integers, Sequences, FiniteSets, TLC

\* ------------------------------------------------------------------ bounds

\* Compile requests dispatched to the worker in one behaviour.
MaxCompiles == 2
\* Load requests of one item that may be in flight together.
MaxInFlight == 2
\* registerEnvPreset requests counted in one behaviour.
MaxRegisters == 2
\* _updateCode calls counted in one debounce window (the count saturates).
MaxBurst == 2
\* Edits and setting changes the user makes in one behaviour.
MaxUserEvents == 3
\* Characters of an envConfig.browsers string.
MaxBrowsersLen == 3
\* Calls of the worker's compile on one config object.
MaxCalls == 2
\* Milliseconds one Babel.transform call may take.
MaxTransformTime == 1

\* ---------------------------------------------------------------- universe

\* null, for strings
Null == "null"

\* null and non-null, for structured values
None == <<>>

Some(x) == <<x>>

\* Editor contents: the empty string, a valid program, a program that does not
\* parse, a valid program that throws when it is executed.
Codes == {"", "ok", "bad", "throws"}

\* A string as the sequence of its characters ("" is <<>>).
Chars == {"a", "b", ",", " "}

RECURSIVE StringsUpTo(_)
StringsUpTo(n) ==
  IF n = 0 THEN {<<>>}
  ELSE StringsUpTo(n - 1)
       \cup {Append(s, ch) : s \in {t \in StringsUpTo(n - 1) : Len(t) = n - 1},
                              ch \in Chars}

\* state.plugins keys; "babili-standalone" is the one Repl.js names.
PluginKeys == {"babili-standalone", "plugin-b"}

\* state.presets keys, in Object.keys order.
PresetOrder == <<"babel-preset-es2015">>

PresetKeys == {PresetOrder[i] : i \in 1..Len(PresetOrder)}

\* presets[key].config.label
Label(key) == IF key = "babel-preset-es2015" THEN "es2015" ELSE key

EnvKey == "babel-preset-env"

PolyfillKey == "babel-polyfill"

Items == PluginKeys \cup {EnvKey, PolyfillKey}

VARIABLES
  babel,                \* state.babel: "loading", "loaded" or "error"
  code,                 \* state.code
  compiled,             \* state.compiled
  ast,                  \* state.ast
  transformTime,        \* state.transformTime
  compileErrorMessage,  \* state.compileErrorMessage
  envPresetDebugInfo,   \* state.envPresetDebugInfo
  evalErrorMessage,     \* state.evalErrorMessage
  sourceMap,            \* state.sourceMap
  plugins,              \* state.plugins: key -> PluginState
  presets,              \* state.presets: key -> PluginState (isEnabled, isLoaded)
  envConfig,            \* state.envConfig
  envPresetState,       \* state.envPresetState
  runtimePolyfillState, \* state.runtimePolyfillState
  debugEnvPreset,       \* state.debugEnvPreset
  builtIns,             \* state.builtIns
  numLoadingPlugins,    \* this._numLoadingPlugins
  timer,                \* the debounce timer of _compileToState: Null or its last argument
  compiling,            \* compile requests sent to the worker and not answered yet
  nextSeq,              \* the number the next compile request gets (dispatch order)
  loadsInFlight,        \* item -> number of its load requests not completed yet
  registerInFlight,     \* registerEnvPreset requests not completed yet
  storage,              \* StorageService "replState": None or the payload set last
  query,                \* the URL query: None or the payload written last
  \* the worker's side, for the compile function on its own
  message,              \* the arguments compile is called with: None or Some([code, config])
  calls,                \* the calls of compile with them so far
  \* history, for the properties only
  appliedSeq,           \* the compile request whose result was applied last
  executedSeq,          \* the compile request whose output was executed last
  executedBy,           \* what executed it: "compile" or "polyfill" ("none" at first)
  loadOutcome,          \* item -> outcome of its load that completed last
  loadTargets,          \* item -> the contexts its load requests were sent to
  registerIssued,       \* registerEnvPreset requests issued so far (saturating)
  registerDone,         \* a registerEnvPreset request has completed
  burstCalls,           \* _updateCode calls since the timer was last idle (saturating)
  lastBurst,            \* burstCalls of the window that closed last
  toggledOffLoaded,     \* items switched off while loaded
  dispatchedAfterFailure, \* a compile request was dispatched after a failed load
  userEvents,           \* edits and setting changes made so far
  loadsOverlapped       \* the latest batch of plugin loads had two in flight together

vars == <<babel, code, compiled, ast, transformTime, compileErrorMessage,
          envPresetDebugInfo, evalErrorMessage, sourceMap, plugins, presets,
          envConfig, envPresetState, runtimePolyfillState, debugEnvPreset, builtIns,
          numLoadingPlugins, timer, compiling, nextSeq, loadsInFlight,
          registerInFlight, storage, query, message, calls, appliedSeq, executedSeq,
          executedBy, loadOutcome, loadTargets, registerIssued, registerDone, burstCalls,
          lastBurst, toggledOffLoaded, dispatchedAfterFailure, userEvents,
          loadsOverlapped>>

\* The worker-side call record, which no handler of the component touches.
workerVars == <<message, calls>>

Min(a, b) == IF a < b THEN a ELSE b

\* ------------------------------------------------------------ plugin state

\* configToState: a PluginState as the constructor builds it.
configToState(isEnabled, isPreLoaded) ==
  [isEnabled |-> isEnabled, isLoading |-> FALSE, isLoaded |-> isPreLoaded,
   didError |-> FALSE]

\* WorkerApi.loadPlugin / loadPlugin, at the call: the entry is marked loading.
LoadStarted(st) == [st EXCEPT !.isLoading = TRUE]

\* WorkerApi.loadPlugin / loadPlugin, at completion: loaded or load-error.
LoadCompleted(st, success) ==
  IF success THEN [st EXCEPT !.isLoaded = TRUE, !.isLoading = FALSE]
             ELSE [st EXCEPT !.didError = TRUE, !.isLoading = FALSE]

\* ------------------------------------------------------------ compile

\* _presetsToArray: labels of the presets that are enabled and loaded, in key order.
RECURSIVE PresetsFrom(_, _)
PresetsFrom(ps, i) ==
  IF i > Len(PresetOrder) THEN <<>>
  ELSE LET key == PresetOrder[i]
       IN  (IF ps[key].isEnabled /\ ps[key].isLoaded THEN <<Label(key)>> ELSE <<>>)
           \o PresetsFrom(ps, i + 1)

presetsToArray(ps) == PresetsFrom(ps, 1)

\* Faulty variant: babili joins the preset list as soon as it is enabled, as in
\* _persistState.
BabiliInCompileWhenEnabled(babili) == babili.isEnabled

\* _compile: babili joins the preset list when it is enabled and loaded.
BabiliInCompile(babili) == babili.isEnabled /\ babili.isLoaded

\* _compile: the env config goes into the request only once the env preset is loaded.
EnvConfigInCompile(ec, es) == IF es.isLoaded THEN Some(ec) ELSE None

\* Faulty variant: the compiled code is evaluated as soon as evaluation is enabled.
EvaluateInCompileWhenEnabled(poly) == poly.isEnabled

\* _compile: the compiled code is evaluated when the polyfill is enabled and loaded.
EvaluateInCompile(poly) == poly.isEnabled /\ poly.isLoaded

\* _compile: the request handed to this._workerApi.compile (seq, code and cb stand
\* for the promise the call returns).
CompileRequest(c, cb) ==
  [seq      |-> nextSeq,
   code     |-> c,
   debugEnvPreset |-> debugEnvPreset,
   presets  |-> presetsToArray(presets)
                \o (IF BabiliInCompile(plugins["babili-standalone"])
                    THEN <<"babili">> ELSE <<>>),
   envConfig |-> EnvConfigInCompile(envConfig, envPresetState),
   evaluate |-> EvaluateInCompile(runtimePolyfillState),
   sourceMap |-> runtimePolyfillState.isEnabled,
   useBuiltIns |-> builtIns,
   cb       |-> cb]

\* String.prototype.split: the entries between the separators, "" included.
RECURSIVE SplitFrom(_, _, _)
SplitFrom(s, sep, entry) ==
  IF s = <<>> THEN <<entry>>
  ELSE IF Head(s) = sep THEN <<entry>> \o SplitFrom(Tail(s), sep, <<>>)
  ELSE SplitFrom(Tail(s), sep, Append(entry, Head(s)))

split(s, sep) == SplitFrom(s, sep, <<>>)

\* String.prototype.trim
RECURSIVE TrimStart(_)
TrimStart(s) == IF s # <<>> /\ Head(s) = " " THEN TrimStart(Tail(s)) ELSE s

RECURSIVE TrimEnd(_)
TrimEnd(s) ==
  IF s # <<>> /\ s[Len(s)] = " " THEN TrimEnd(SubSeq(s, 1, Len(s) - 1)) ELSE s

trim(s) == TrimEnd(TrimStart(s))

\* .map(value => value.trim()).filter(value => value)
RECURSIVE TrimmedEntries(_)
TrimmedEntries(list) ==
  IF list = <<>> THEN <<>>
  ELSE (IF trim(Head(list)) # <<>> THEN <<trim(Head(list))>> ELSE <<>>)
       \o TrimmedEntries(Tail(list))

\* compile (worker side): the targets object; a key that is not set is None.
Targets(ec) ==
  [browsers |-> IF ec.browsers # <<>>
                THEN Some(TrimmedEntries(split(ec.browsers, ","))) ELSE None,
   electron |-> IF ec.isElectronEnabled THEN Some(ec.electron) ELSE None,
   node     |-> IF ec.isNodeEnabled THEN Some(ec.node) ELSE None]

\* Faulty variant: useBuiltIns follows the setting, evaluating or not.
UseBuiltInsAsSet(cfg) == cfg.useBuiltIns

UseBuiltIns(cfg) == ~cfg.evaluate /\ cfg.useBuiltIns

\* compile (worker side): the options of the env preset; onPresetBuild tells
\* whether a callback is passed.
EnvOptions(cfg) ==
  [onPresetBuild |-> cfg.debugEnvPreset,
   targets       |-> Targets(cfg.envConfig[1]),
   useBuiltIns   |-> UseBuiltIns(cfg)]

\* compile (worker side): the env preset is appended when the config carries an
\* enabled env config.
UsesEnvPreset(cfg) ==
  cfg.envConfig # None /\ cfg.envConfig[1].isEnvPresetEnabled

\* config.presets after config.presets.push(["env", options]): the list handed
\* to Babel.transform.
CompilePresets(cfg) ==
  cfg.presets \o (IF UsesEnvPreset(cfg) THEN << <<"env", EnvOptions(cfg)>> >> ELSE <<>>)

\* compile (worker side) leaves the config object it was given with the list it
\* pushed on.
ConfigAfterCompile(cfg) == [cfg EXCEPT !.presets = CompilePresets(cfg)]

\* Babel.transform throws on a program that does not parse.
TransformThrows(c) == c = "bad"

\* The message of the error Babel.transform throws.
TransformError(c) == "repl: Unexpected token"

\* Faulty variant: the catch block keeps what the debug callback captured.
KeptDebugInfo(info) == info

\* The catch block of compile: envPresetDebugInfo = null.
CaughtDebugInfo(info) == Null

\* What one run of the worker adds to the call: the time Babel.transform takes,
\* and whether JSON.stringify(transformed.map) succeeds.
Runs == [elapsed : 0..MaxTransformTime, mapSerializes : BOOLEAN]

\* compile (worker side): the outcome, a success record or a failure record.
\* onPresetBuild fires while Babel builds the env preset, before it parses.
compile(c, cfg, run) ==
  LET info == IF UsesEnvPreset(cfg) /\ cfg.debugEnvPreset
              THEN "env preset debug info" ELSE Null
  IN  IF TransformThrows(c)
      THEN [compiled            |-> None,
            transformTime       |-> None,
            ast                 |-> None,
            compileErrorMessage |-> TransformError(c),
            envPresetDebugInfo  |-> CaughtDebugInfo(info),
            sourceMap           |-> None]
      ELSE [compiled            |-> Some([src |-> c, presets |-> CompilePresets(cfg)]),
            transformTime       |-> Some(run.elapsed),
            ast                 |-> Some([program |-> c]),
            compileErrorMessage |-> Null,
            envPresetDebugInfo  |-> info,
            sourceMap           |-> IF cfg.sourceMap /\ run.mapSerializes
                                    THEN Some([file |-> "repl"]) ELSE None]

\* scopedEval.execute throws on a program that throws.
ExecuteThrows(out) == out[1].src = "throws"

\* The evalErrorMessage an execution of compiled code leaves.
Execute(out) == IF ExecuteThrows(out) THEN "Error: thrown by the program" ELSE Null

\* this._workerApi.compile: the worker's outcome, executed in the sandbox when
\* the request asks for it and the compile succeeded.
WorkerApiCompile(c, cfg, run) ==
  LET result == compile(c, cfg, run)
      executes == cfg.evaluate /\ result.compiled # None
  IN  [result   |-> result,
       executed |-> executes,
       evalErrorMessage |-> IF executes THEN Execute(result.compiled) ELSE Null]

\* The worker run of the session: its clock and its map serializer are not
\* what the session is about.
WorkerRun == [elapsed |-> MaxTransformTime, mapSerializes |-> TRUE]

SomeLoadFailed ==
  \/ \E k \in PluginKeys : plugins[k].didError
  \/ envPresetState.didError
  \/ runtimePolyfillState.didError

\* ------------------------------------------------------------ debounce

\* Faulty variant: a debounce that keeps the arguments of the first call of a
\* window.
debounceFirstArgs(t, c) == IF t # Null THEN t ELSE c

\* lodash debounce, trailing edge: a call (re)arms the timer and keeps the last
\* arguments.
debounce(t, c) == c

\* _updateCode
UpdateCode(c) ==
  /\ code' = c
  /\ timer' = debounce(timer, c)
  /\ burstCalls' = Min(burstCalls + 1, MaxBurst)

NoUpdateCode == UNCHANGED <<code, timer, burstCalls>>

\* ------------------------------------------------- _checkForUnloadedPlugins

\* Faulty variant: the loop without its isLoading test.
ShouldLoadPluginWhileLoading(plugin) == plugin.isEnabled /\ ~plugin.isLoaded

ShouldLoadPlugin(plugin) ==
  plugin.isEnabled /\ ~plugin.isLoaded /\ ~plugin.isLoading

\* Faulty variant: the polyfill is loaded whenever it is not loaded yet.
ShouldLoadPolyfillUnloaded(st) == ~st.isLoaded

ShouldLoadPolyfill(st) == st.isEnabled /\ ~st.isLoaded

\* Faulty variant: the env preset is loaded whenever it is enabled.
ShouldLoadEnvPresetWhenEnabled(ec, es) == ec.isEnvPresetEnabled

ShouldLoadEnvPreset(ec, es) == ec.isEnvPresetEnabled /\ ~es.isLoaded

\* loadPlugin (UI thread, used for the polyfill) returns at once for an entry
\* that is loading already.
loadPluginAccepts(st) == ~st.isLoading

\* Where a load request goes: the polyfill into scopedEval.getIframe(), a plugin
\* and the env preset through this._workerApi into the worker.
LoadTarget(i) == IF i = PolyfillKey THEN "iframe" ELSE "worker"

\* _checkForUnloadedPlugins over the state (pl, poly, ec, es) its caller left.
CheckForUnloadedPlugins(pl, poly, ec, es) ==
  LET starting == {k \in PluginKeys : ShouldLoadPlugin(pl[k])}
      polyStarts == ShouldLoadPolyfill(poly) /\ loadPluginAccepts(poly)
      envStarts == ShouldLoadEnvPreset(ec, es)
      issued(i) == IF \/ i \in starting
                      \/ i = PolyfillKey /\ polyStarts
                      \/ i = EnvKey /\ envStarts
                   THEN 1 ELSE 0
  IN  /\ \A i \in Items : loadsInFlight[i] + issued(i) <= MaxInFlight
      /\ plugins' = [k \in PluginKeys |->
                       IF k \in starting THEN LoadStarted(pl[k]) ELSE pl[k]]
      /\ numLoadingPlugins' = numLoadingPlugins + Cardinality(starting)
      /\ runtimePolyfillState' = IF polyStarts THEN LoadStarted(poly) ELSE poly
      /\ envPresetState' = IF envStarts THEN LoadStarted(es) ELSE es
      /\ loadsInFlight' = [i \in Items |-> loadsInFlight[i] + issued(i)]
      /\ loadTargets' = [i \in Items |->
                           IF issued(i) = 1 THEN loadTargets[i] \cup {LoadTarget(i)}
                           ELSE loadTargets[i]]
      /\ loadsOverlapped' =
           IF numLoadingPlugins' >= 2 THEN TRUE
           ELSE IF starting # {} /\ numLoadingPlugins = 0 THEN FALSE
           ELSE loadsOverlapped

NoLoads ==
  UNCHANGED <<plugins, numLoadingPlugins, runtimePolyfillState, envPresetState,
              loadsInFlight, loadTargets, loadsOverlapped>>

\* ------------------------------------------------------------ _compile

\* The fields of the state that a compile result sets.
resultVars ==
  <<compiled, ast, transformTime, compileErrorMessage, envPresetDebugInfo, sourceMap>>

\* The record of the execution of compiled code that took place last.
executionVars == <<executedSeq, executedBy>>

\* The settings this model holds at their persisted value.
settingVars == <<debugEnvPreset, builtIns>>

\* Faulty variant: _compile without its early return.
IsEmptyCodeNever(c) == FALSE

\* _compile: if (!code)
IsEmptyCode(c) == c = ""

\* _compile with empty code: the outcome fields are reset, nothing is sent.
CompileEmpty ==
  /\ compiled' = None
  /\ ast' = None
  /\ transformTime' = None
  /\ compileErrorMessage' = Null
  /\ envPresetDebugInfo' = Null
  /\ evalErrorMessage' = Null
  /\ sourceMap' = None
  /\ UNCHANGED <<compiling, nextSeq, dispatchedAfterFailure>>

\* _compile with code: one request goes to the worker.
CompileDispatch(c, cb) ==
  /\ nextSeq <= MaxCompiles
  /\ compiling' = compiling \cup {CompileRequest(c, cb)}
  /\ nextSeq' = nextSeq + 1
  /\ dispatchedAfterFailure' = (dispatchedAfterFailure \/ SomeLoadFailed)
  /\ UNCHANGED <<resultVars, evalErrorMessage>>

NoCompile ==
  UNCHANGED <<resultVars, evalErrorMessage, compiling, nextSeq, dispatchedAfterFailure>>

\* ------------------------------------------------------------ persistence

\* Array.prototype.join; a label is one piece of the string.
RECURSIVE join(_, _)
join(list, sep) ==
  IF list = <<>> THEN <<>>
  ELSE IF Len(list) = 1 THEN <<Head(list)>>
  ELSE <<Head(list), sep>> \o join(Tail(list), sep)

\* Faulty variant: babili is persisted when it is enabled and loaded, as in
\* _compile.
BabiliInPayloadWhenLoaded(babili) == babili.isEnabled /\ babili.isLoaded

\* _persistState: babili joins the persisted list when it is enabled.
BabiliInPayload(babili) == babili.isEnabled

\* _persistState: presetsArray
PersistedPresets ==
  presetsToArray(presets)
  \o (IF BabiliInPayload(plugins["babili-standalone"]) THEN <<"babili">> ELSE <<>>)
  \o (IF envConfig.isEnvPresetEnabled THEN <<"env">> ELSE <<>>)

\* _persistState: the payload.  Its other fields (build, circleciRepo, version,
\* lineWrap, showSidebar, the tab flags, targets) copy or encode state that
\* lies outside this model.
Payload ==
  [babili   |-> plugins["babili-standalone"].isEnabled,
   browsers |-> envConfig.browsers,
   builtIns |-> builtIns,
   code     |-> code,
   debug    |-> debugEnvPreset,
   evaluate |-> runtimePolyfillState.isEnabled,
   presets  |-> join(PersistedPresets, ",")]

\* _persistState
PersistState ==
  /\ storage' = Some(Payload)
  /\ query' = Some(Payload)

NoPersist == UNCHANGED <<storage, query>>

\* loadPersistedState: the record read back, the URL query first.
loadPersistedState == IF query # None THEN query[1] ELSE storage[1]

\* constructor: defaultPresets, the keys `babel-preset-${key}` of the entries
\* of persistedState.presets that are not empty.
DefaultPresets(persistedState) ==
  LET entries == split(persistedState.presets, ",")
  IN  {k \in PresetKeys :
         \E n \in 1..Len(entries) :
            entries[n] # <<>> /\ entries[n] = <<Label(k)>>}

\* persistedStateToEnvConfig: the env preset is enabled when "env" is one of the
\* persisted presets; browsers is the persisted string.
persistedStateToEnvConfig(persistedState, ec) ==
  LET entries == split(persistedState.presets, ",")
  IN  [ec EXCEPT
         !.isEnvPresetEnabled = \E n \in 1..Len(entries) : entries[n] = <<"env">>,
         !.browsers = persistedState.browsers]

\* configArrayToStateMap over the preset descriptors: a key of the overrides is
\* enabled; whether a preset is baked into babel-standalone (isLoaded) is its
\* descriptor's, the same in every session.
PresetStateMap(defaultPresets) ==
  [k \in PresetKeys |-> configToState(k \in defaultPresets, presets[k].isLoaded)]

\* configArrayToStateMap over the plugin descriptors with defaultPlugins, which
\* holds babili only.
PluginStateMap(persistedState) ==
  [k \in PluginKeys |->
     configToState(k = "babili-standalone" /\ persistedState.babili, FALSE)]

\* ------------------------------------------------------------ actions

\* Faulty variant: the panels are rendered once loadBabel has answered.
IsRenderedUnlessLoading(b) == b # "loading"

\* render: the panels and their handlers exist only when state.babel.isLoaded;
\* until then there is the loader message alone.
IsRendered(b) == b = "loaded"

\* _setupBabel, after loadBabel has answered.
SetupBabel(success) ==
  /\ babel = "loading"
  /\ babel' = IF success THEN "loaded" ELSE "error"
  /\ IF ~success THEN
       /\ NoLoads
       /\ NoCompile
     ELSE IF IsEmptyCode(code) THEN
       /\ CompileEmpty
       /\ CheckForUnloadedPlugins(plugins, runtimePolyfillState, envConfig,
                                  envPresetState)
     ELSE
       /\ CompileDispatch(code, "checkForUnloadedPlugins")
       /\ NoLoads
  /\ NoUpdateCode
  /\ NoPersist
  /\ UNCHANGED <<presets, envConfig, settingVars, registerInFlight, workerVars,
                 appliedSeq, executionVars, loadOutcome, registerIssued, registerDone,
                 lastBurst, toggledOffLoaded, userEvents>>

\* CodeMirrorPanel onChange: _updateCode.
Edit(c) ==
  /\ IsRendered(babel)
  /\ userEvents < MaxUserEvents
  /\ userEvents' = userEvents + 1
  /\ UpdateCode(c)
  /\ NoLoads
  /\ NoCompile
  /\ NoPersist
  /\ UNCHANGED <<babel, presets, envConfig, settingVars, registerInFlight,
                 workerVars, appliedSeq, executionVars, loadOutcome, registerIssued,
                 registerDone, lastBurst, toggledOffLoaded>>

\* The debounce timer fires: _compile(code, this._persistState).  With empty
\* code the setState callback, _persistState, runs at once.
DebounceFire ==
  /\ timer # Null
  /\ timer' = Null
  /\ burstCalls' = 0
  /\ lastBurst' = burstCalls
  /\ IF IsEmptyCode(timer)
     THEN CompileEmpty /\ PersistState
     ELSE CompileDispatch(timer, "persistState") /\ NoPersist
  /\ NoLoads
  /\ UNCHANGED <<babel, code, presets, envConfig, settingVars, registerInFlight,
                 workerVars, appliedSeq, executionVars, loadOutcome, registerIssued,
                 registerDone, toggledOffLoaded, userEvents>>

\* The worker answers a compile request: setState(result, setStateCallback).
CompileDone(r) ==
  LET answer == WorkerApiCompile(r.code, r, WorkerRun)
  IN  /\ r \in compiling
      /\ compiling' = compiling \ {r}
      /\ compiled' = answer.result.compiled
      /\ ast' = answer.result.ast
      /\ transformTime' = answer.result.transformTime
      /\ compileErrorMessage' = answer.result.compileErrorMessage
      /\ envPresetDebugInfo' = answer.result.envPresetDebugInfo
      /\ sourceMap' = answer.result.sourceMap
      /\ evalErrorMessage' = answer.evalErrorMessage
      /\ executedSeq' = IF answer.executed THEN r.seq ELSE executedSeq
      /\ executedBy' = IF answer.executed THEN "compile" ELSE executedBy
      /\ appliedSeq' = r.seq
      /\ IF r.cb = "checkForUnloadedPlugins"
         THEN /\ CheckForUnloadedPlugins(plugins, runtimePolyfillState, envConfig,
                                         envPresetState)
              /\ NoPersist
         ELSE /\ NoLoads
              /\ PersistState
      /\ NoUpdateCode
      /\ UNCHANGED <<babel, presets, envConfig, settingVars, nextSeq,
                     dispatchedAfterFailure, registerInFlight, workerVars,
                     loadOutcome, registerIssued, registerDone, lastBurst,
                     toggledOffLoaded, userEvents>>

\* _presetsUpdatedSetStateCallback over the state its caller left.
PresetsUpdated(pl, poly, ec) ==
  /\ CheckForUnloadedPlugins(pl, poly, ec, envPresetState)
  /\ UpdateCode(code)

\* _onSettingChange(name, isEnabled) and its setState callback.
OnSettingChange(name, isEnabled) ==
  /\ IsRendered(babel)
  /\ userEvents < MaxUserEvents
  /\ userEvents' = userEvents + 1
  /\ IF name = PolyfillKey THEN
       /\ PresetsUpdated(plugins,
                         [runtimePolyfillState EXCEPT !.isEnabled = isEnabled],
                         envConfig)
       /\ toggledOffLoaded' =
            IF ~isEnabled /\ runtimePolyfillState.isLoaded
            THEN toggledOffLoaded \cup {name} ELSE toggledOffLoaded
       /\ UNCHANGED presets
     ELSE IF name \in PluginKeys THEN
       /\ PresetsUpdated([plugins EXCEPT ![name].isEnabled = isEnabled],
                         runtimePolyfillState, envConfig)
       /\ toggledOffLoaded' =
            IF ~isEnabled /\ plugins[name].isLoaded
            THEN toggledOffLoaded \cup {name} ELSE toggledOffLoaded
       /\ UNCHANGED presets
     ELSE
       /\ name \in PresetKeys
       /\ presets' = [presets EXCEPT ![name].isEnabled = isEnabled]
       /\ PresetsUpdated(plugins, runtimePolyfillState, envConfig)
       /\ UNCHANGED toggledOffLoaded
  /\ NoCompile
  /\ NoPersist
  /\ UNCHANGED <<babel, envConfig, settingVars, registerInFlight, workerVars,
                 appliedSeq, executionVars, loadOutcome, registerIssued, registerDone,
                 lastBurst>>

\* _onEnvPresetSettingChange("isEnvPresetEnabled", value) and its setState callback.
OnEnvPresetSettingChange(value) ==
  /\ IsRendered(babel)
  /\ userEvents < MaxUserEvents
  /\ userEvents' = userEvents + 1
  /\ envConfig' = [envConfig EXCEPT !.isEnvPresetEnabled = value]
  /\ PresetsUpdated(plugins, runtimePolyfillState, envConfig')
  /\ toggledOffLoaded' =
       IF ~value /\ envPresetState.isLoaded
       THEN toggledOffLoaded \cup {EnvKey} ELSE toggledOffLoaded
  /\ NoCompile
  /\ NoPersist
  /\ UNCHANGED <<babel, presets, settingVars, registerInFlight, workerVars,
                 appliedSeq, executionVars, loadOutcome, registerIssued, registerDone,
                 lastBurst>>

\* A setting whose field lies outside this model (_onTabExpandedChange, the
\* state.hasOwnProperty branch of _onSettingChange, the other env fields): only
\* the setState callback shows.
OnOtherSettingChange ==
  /\ IsRendered(babel)
  /\ userEvents < MaxUserEvents
  /\ userEvents' = userEvents + 1
  /\ PresetsUpdated(plugins, runtimePolyfillState, envConfig)
  /\ NoCompile
  /\ NoPersist
  /\ UNCHANGED <<babel, presets, envConfig, settingVars, registerInFlight,
                 workerVars, appliedSeq, executionVars, loadOutcome, registerIssued,
                 registerDone, lastBurst, toggledOffLoaded>>

\* _onIsSidebarExpandedChange: setState({isSidebarExpanded}, this._persistState);
\* the flag itself lies outside this model.
OnIsSidebarExpandedChange ==
  /\ IsRendered(babel)
  /\ userEvents < MaxUserEvents
  /\ userEvents' = userEvents + 1
  /\ PersistState
  /\ NoUpdateCode
  /\ NoLoads
  /\ NoCompile
  /\ UNCHANGED <<babel, presets, envConfig, settingVars, registerInFlight,
                 workerVars, appliedSeq, executionVars, loadOutcome, registerIssued,
                 registerDone, lastBurst, toggledOffLoaded>>

\* Faulty variant: every plugin load completion recompiles.
AnyPluginLoadDone(n) == TRUE

\* "Once all plugins have been loaded, re-compile code."
AllPluginLoadsDone(n) == n = 0

\* Faulty variant: only a successful load is counted down.
CountDownOnSuccess(n, success) == IF success THEN n - 1 ELSE n

\* this._numLoadingPlugins--, before success is looked at.
CountDown(n, success) == n - 1

Outcome(success) == IF success THEN "ok" ELSE "fail"

\* The then-callback of this._workerApi.loadPlugin(plugin) for plugins[key].
PluginLoadDone(key, success) ==
  /\ loadsInFlight[key] > 0
  /\ loadsInFlight' = [loadsInFlight EXCEPT ![key] = @ - 1]
  /\ plugins' = [plugins EXCEPT ![key] = LoadCompleted(@, success)]
  /\ numLoadingPlugins' = CountDown(numLoadingPlugins, success)
  /\ IF AllPluginLoadsDone(numLoadingPlugins') THEN UpdateCode(code) ELSE NoUpdateCode
  /\ loadOutcome' = [loadOutcome EXCEPT ![key] = Outcome(success)]
  /\ NoCompile
  /\ NoPersist
  /\ UNCHANGED <<babel, presets, envConfig, envPresetState, runtimePolyfillState,
                 settingVars, registerInFlight, workerVars, appliedSeq, executionVars,
                 loadTargets, registerIssued, registerDone, lastBurst,
                 toggledOffLoaded, userEvents, loadsOverlapped>>

\* The callback of loadPlugin(runtimePolyfillState, ..., iframe): it executes the
\* most recently compiled code, if there is any, and does not recompile.
PolyfillLoadDone(success) ==
  /\ loadsInFlight[PolyfillKey] > 0
  /\ loadsInFlight' = [loadsInFlight EXCEPT ![PolyfillKey] = @ - 1]
  /\ runtimePolyfillState' = LoadCompleted(runtimePolyfillState, success)
  /\ loadOutcome' = [loadOutcome EXCEPT ![PolyfillKey] = Outcome(success)]
  /\ IF compiled = None
     THEN UNCHANGED <<evalErrorMessage, executionVars>>
     ELSE /\ evalErrorMessage' = Execute(compiled)
          /\ executedSeq' = appliedSeq
          /\ executedBy' = "polyfill"
  /\ NoUpdateCode
  /\ NoPersist
  /\ UNCHANGED <<babel, resultVars, plugins, presets, envConfig, envPresetState,
                 settingVars, numLoadingPlugins, compiling, nextSeq,
                 dispatchedAfterFailure, registerInFlight, workerVars, appliedSeq,
                 loadTargets, registerIssued, registerDone, lastBurst,
                 toggledOffLoaded, userEvents, loadsOverlapped>>

\* The then-callback of this._workerApi.loadPlugin(envPresetState): the preset is
\* registered in the worker, whatever the load answered.
EnvPresetLoadDone(success) ==
  /\ loadsInFlight[EnvKey] > 0
  /\ registerInFlight < MaxInFlight
  /\ loadsInFlight' = [loadsInFlight EXCEPT ![EnvKey] = @ - 1]
  /\ envPresetState' = LoadCompleted(envPresetState, success)
  /\ loadOutcome' = [loadOutcome EXCEPT ![EnvKey] = Outcome(success)]
  /\ registerInFlight' = registerInFlight + 1
  /\ registerIssued' = Min(registerIssued + 1, MaxRegisters)
  /\ NoUpdateCode
  /\ NoCompile
  /\ NoPersist
  /\ UNCHANGED <<babel, plugins, presets, envConfig, runtimePolyfillState,
                 settingVars, numLoadingPlugins, workerVars, appliedSeq,
                 executionVars, loadTargets, registerDone, lastBurst,
                 toggledOffLoaded, userEvents, loadsOverlapped>>

\* The then-callback of this._workerApi.registerEnvPreset(); its answer is not read.
RegisterEnvPresetDone ==
  /\ registerInFlight > 0
  /\ registerInFlight' = registerInFlight - 1
  /\ registerDone' = TRUE
  /\ UpdateCode(code)
  /\ NoLoads
  /\ NoCompile
  /\ NoPersist
  /\ UNCHANGED <<babel, presets, envConfig, settingVars, workerVars, appliedSeq,
                 executionVars, loadOutcome, registerIssued, lastBurst,
                 toggledOffLoaded, userEvents>>

\* ------------------------------------------------------------ specification

\* What the constructor and the field initializers leave besides the persisted
\* settings: no outcome, nothing in flight, nothing done yet.
Quiet ==
  /\ compiled = None
  /\ ast = None
  /\ transformTime = None
  /\ compileErrorMessage = Null
  /\ envPresetDebugInfo = Null
  /\ evalErrorMessage = Null
  /\ sourceMap = None
  /\ numLoadingPlugins = 0
  /\ timer = Null
  /\ compiling = {}
  /\ nextSeq = 1
  /\ loadsInFlight = [i \in Items |-> 0]
  /\ registerInFlight = 0
  /\ appliedSeq = 0
  /\ executedSeq = 0
  /\ executedBy = "none"
  /\ loadOutcome = [i \in Items |-> "none"]
  /\ loadTargets = [i \in Items |-> {}]
  /\ registerIssued = 0
  /\ registerDone = FALSE
  /\ burstCalls = 0
  /\ lastBurst = 0
  /\ toggledOffLoaded = {}
  /\ dispatchedAfterFailure = FALSE
  /\ userEvents = 0
  /\ loadsOverlapped = FALSE

\* No compile call is being looked at on the worker's side.
WorkerIdle ==
  /\ message = None
  /\ calls = <<>>

\* The env fields of a session that has set no target.
DefaultEnvConfig ==
  [browsers |-> <<>>, electron |-> "1.4", isElectronEnabled |-> FALSE,
   isEnvPresetEnabled |-> FALSE, isNodeEnabled |-> FALSE, node |-> "7.4"]

\* The settings of a session whose persisted record holds the env-preset debug
\* flag and enables nothing but the default preset, which babel-standalone
\* bakes in.
DefaultSettings ==
  /\ plugins = [k \in PluginKeys |-> configToState(FALSE, FALSE)]
  /\ presets = [k \in PresetKeys |-> configToState(TRUE, TRUE)]
  /\ envConfig = DefaultEnvConfig
  /\ envPresetState = configToState(envConfig.isEnvPresetEnabled, FALSE)
  /\ runtimePolyfillState = configToState(FALSE, FALSE)
  /\ debugEnvPreset = TRUE
  /\ builtIns = FALSE
  /\ storage = None
  /\ query = None

\* The codes a persisted record starts the session with.
PersistedCodes == {"", "ok"}

\* The state the constructor leaves, over the persisted codes.
Init ==
  /\ babel = "loading"
  /\ Quiet
  /\ WorkerIdle
  /\ DefaultSettings
  /\ code \in PersistedCodes

Next ==
  \/ \E success \in BOOLEAN : SetupBabel(success)
  \/ \E c \in Codes : Edit(c)
  \/ DebounceFire
  \/ \E r \in compiling : CompileDone(r)
  \/ \E name \in PluginKeys \cup PresetKeys \cup {PolyfillKey}, isEnabled \in BOOLEAN :
       OnSettingChange(name, isEnabled)
  \/ \E value \in BOOLEAN : OnEnvPresetSettingChange(value)
  \/ OnOtherSettingChange
  \/ OnIsSidebarExpandedChange
  \/ \E key \in PluginKeys, success \in BOOLEAN : PluginLoadDone(key, success)
  \/ \E success \in BOOLEAN : PolyfillLoadDone(success)
  \/ \E success \in BOOLEAN : EnvPresetLoadDone(success)
  \/ RegisterEnvPresetDone

Spec == Init /\ [][Next]_vars

\* ------------------------------------------- the compile function on its own

\* The env configs a compile config may carry.
EnvConfigs ==
  [browsers : StringsUpTo(MaxBrowsersLen), electron : {"1.4"},
   isElectronEnabled : BOOLEAN, isEnvPresetEnabled : BOOLEAN,
   isNodeEnabled : {FALSE}, node : {"7.4"}]

\* The configs _compile may build; presets holds labels only.
Configs ==
  [debugEnvPreset : BOOLEAN,
   envConfig      : {None} \cup {Some(ec) : ec \in EnvConfigs},
   evaluate       : BOOLEAN,
   presets        : {<<>>, <<"es2015">>},
   sourceMap      : BOOLEAN,
   useBuiltIns    : BOOLEAN]

\* compile(code, config) is called with the arguments at hand; the config
\* object stays with the caller, as compile left it.
CallCompile(run) ==
  /\ message # None
  /\ Len(calls) < MaxCalls
  /\ LET c == message[1].code
         cfg == message[1].config
     IN  /\ calls' = Append(calls, [given    |-> cfg,
                                    received |-> CompilePresets(cfg),
                                    outcome  |-> compile(c, cfg, run)])
         /\ message' = Some([code |-> c, config |-> ConfigAfterCompile(cfg)])
  /\ UNCHANGED <<babel, code, resultVars, evalErrorMessage, plugins, presets,
                 envConfig, envPresetState, runtimePolyfillState, settingVars,
                 numLoadingPlugins, timer, compiling, nextSeq, loadsInFlight,
                 registerInFlight, storage, query, appliedSeq, executionVars,
                 loadOutcome, loadTargets, registerIssued, registerDone,
                 burstCalls, lastBurst, toggledOffLoaded, dispatchedAfterFailure,
                 userEvents, loadsOverlapped>>

\* Every code that reaches the worker (it is not empty) with every config.
InitCompile ==
  /\ babel = "loading"
  /\ Quiet
  /\ DefaultSettings
  /\ code = ""
  /\ message \in {Some([code |-> c, config |-> cfg]) : c \in {"ok", "bad"}, cfg \in Configs}
  /\ calls = <<>>

NextCompile == \E run \in Runs : CallCompile(run)

SpecCompile == InitCompile /\ [][NextCompile]_vars

\* ------------------------------------------------- persisting and restoring

\* The page is loaded again: the constructor over loadPersistedState().
Reload ==
  /\ babel = "loaded"
  /\ storage # None
  /\ LET persistedState == loadPersistedState
     IN  /\ code' = persistedState.code
         /\ plugins' = PluginStateMap(persistedState)
         /\ presets' = PresetStateMap(DefaultPresets(persistedState))
         /\ envConfig' = persistedStateToEnvConfig(persistedState, envConfig)
         /\ envPresetState' = configToState(envConfig'.isEnvPresetEnabled, FALSE)
         /\ runtimePolyfillState' = configToState(persistedState.evaluate, FALSE)
         /\ debugEnvPreset' = persistedState.debug
         /\ builtIns' = persistedState.builtIns
  /\ babel' = "loading"
  /\ compiled' = None
  /\ ast' = None
  /\ transformTime' = None
  /\ compileErrorMessage' = Null
  /\ envPresetDebugInfo' = Null
  /\ evalErrorMessage' = Null
  /\ sourceMap' = None
  /\ numLoadingPlugins' = 0
  /\ timer' = Null
  /\ compiling' = {}
  /\ loadsInFlight' = [i \in Items |-> 0]
  /\ registerInFlight' = 0
  /\ UNCHANGED <<storage, query, workerVars, nextSeq, appliedSeq, executionVars,
                 loadOutcome, loadTargets, registerIssued, registerDone,
                 burstCalls, lastBurst, toggledOffLoaded, dispatchedAfterFailure,
                 userEvents, loadsOverlapped>>

\* A running session in any state of its settings; only babili has a field in
\* the persisted record, the other plugin is left off.
InitPersist ==
  /\ babel = "loaded"
  /\ Quiet
  /\ WorkerIdle
  /\ code \in PersistedCodes
  /\ \E babili \in BOOLEAN \X BOOLEAN :
       plugins = [k \in PluginKeys |->
                    IF k = "babili-standalone"
                    THEN configToState(babili[1], babili[2])
                    ELSE configToState(FALSE, FALSE)]
  /\ presets \in [PresetKeys -> {configToState(e, l) : e \in BOOLEAN, l \in BOOLEAN}]
  /\ envConfig \in {[DefaultEnvConfig EXCEPT !.browsers = b, !.isEnvPresetEnabled = e] :
                      b \in StringsUpTo(MaxBrowsersLen), e \in BOOLEAN}
  /\ envPresetState = configToState(envConfig.isEnvPresetEnabled, FALSE)
  /\ runtimePolyfillState \in {configToState(e, FALSE) : e \in BOOLEAN}
  /\ debugEnvPreset = TRUE
  /\ builtIns = FALSE
  /\ storage = None
  /\ query = None

NextPersist ==
  \/ OnIsSidebarExpandedChange
  \/ Reload

SpecPersist == InitPersist /\ [][NextPersist]_vars

\* ------------------------------------------- the session under fair scheduling

\* A compile request can still be dispatched within MaxCompiles.
CompilesLeft == nextSeq <= MaxCompiles

\* The session, where a step that arms the debounce timer is counted only
\* while the compile it leads to can still be dispatched.
NextLive ==
  \/ \E success \in BOOLEAN : SetupBabel(success)
  \/ DebounceFire
  \/ \E r \in compiling : CompileDone(r)
  \/ OnIsSidebarExpandedChange
  \/ \E success \in BOOLEAN : PolyfillLoadDone(success)
  \/ \E success \in BOOLEAN : EnvPresetLoadDone(success)
  \/ CompilesLeft /\ \E c \in Codes : Edit(c)
  \/ CompilesLeft /\ \E name \in PluginKeys \cup PresetKeys \cup {PolyfillKey},
                        isEnabled \in BOOLEAN : OnSettingChange(name, isEnabled)
  \/ CompilesLeft /\ \E value \in BOOLEAN : OnEnvPresetSettingChange(value)
  \/ CompilesLeft /\ OnOtherSettingChange
  \/ CompilesLeft /\ \E key \in PluginKeys, success \in BOOLEAN :
                        PluginLoadDone(key, success)
  \/ CompilesLeft /\ RegisterEnvPresetDone

\* The debounce timer fires DEBOUNCE_DELAY after the last call, and the worker
\* answers every compile request.  Nothing is asked of the user, of loadBabel
\* or of the script loads.  Each of the two steps changes the variable named in
\* its subscript: the timer is cleared, the request leaves the pending set.
Fairness ==
  /\ WF_timer(DebounceFire)
  /\ WF_compiling(\E r \in compiling : CompileDone(r))

SpecLive == Init /\ [][NextLive]_vars /\ Fairness

\* ------------------------------------------------------------ properties

\* The PluginState entry of an item.
StateOf(i) ==
  IF i \in PluginKeys THEN plugins[i]
  ELSE IF i = EnvKey THEN envPresetState
  ELSE runtimePolyfillState

ItemEnabled(i) ==
  IF i = EnvKey THEN envConfig.isEnvPresetEnabled ELSE StateOf(i).isEnabled

\* This step closes a debounce window.
WindowCloses == timer # Null /\ timer' = Null

\* This step completes a load request of item i / issues one.
LoadCompletes(i) == loadsInFlight'[i] < loadsInFlight[i]

LoadIssued(i) == loadsInFlight'[i] > loadsInFlight[i]

\* The plugin states of section 4.5.
InLoaded(st) == st.isLoaded /\ ~st.isLoading

InLoadError(st) == st.didError /\ ~st.isLoaded /\ ~st.isLoading

\* C1 (as stated): the step that closes a debounce window dispatches exactly one
\* compile request, and it carries the code of the last _updateCode call.
C1_OneDispatchPerBurst ==
  [][WindowCloses =>
       \E r \in compiling' : /\ r \notin compiling
                             /\ compiling' = compiling \cup {r}
                             /\ r.code = code]_vars

\* C1 (amended): a burst of _updateCode calls inside one debounce window leads to
\* exactly one _compile call, at the close of the window, with the code of the
\* last call: one request carrying that code when it is not empty, no request
\* when it is empty; no other step dispatches a debounced (persisting) compile.
C1_OneCompilePerBurst ==
  [][
      /\ WindowCloses =>
          (IF code = ""
           THEN compiling' = compiling /\ compiled' = None
           ELSE \E r \in compiling' : /\ r \notin compiling
                                      /\ compiling' = compiling \cup {r}
                                      /\ r.code = code
                                      /\ r.cb = "persistState")
      /\ ~WindowCloses =>
          (\A q \in compiling' \ compiling : q.cb # "persistState")
  ]_vars

\* A window of at least two _updateCode calls has closed and its request, with
\* the current code, is in flight.
C1_Witness ==
  /\ lastBurst >= 2
  /\ timer = Null
  /\ code # ""
  /\ \E r \in compiling :
       r.seq = nextSeq - 1 /\ r.cb = "persistState" /\ r.code = code

\* C2 (as stated): results are applied in dispatch order: the request whose
\* result is applied is never older than the one applied before it.
C2_ResultsAppliedInDispatchOrder == [][appliedSeq' >= appliedSeq]_vars

\* C3: a plugin load completion leaves the plugin loaded on success and in
\* load-error on failure and changes no other plugin's entry; once a success of
\* A and a failure of B have both completed, A is loaded and B is in load-error.
C3_IndependentCompletions ==
  [][\A k \in PluginKeys :
       LoadCompletes(k) =>
         /\ \A j \in PluginKeys \ {k} : plugins'[j] = plugins[j]
         /\ loadOutcome'[k] = "ok" => InLoaded(plugins'[k])
         /\ loadOutcome'[k] = "fail" => InLoadError(plugins'[k])
         /\ \A a \in PluginKeys, b \in PluginKeys :
              ( /\ a # b
                /\ loadOutcome'[a] = "ok" /\ loadOutcome'[b] = "fail"
                /\ loadsInFlight'[a] = 0 /\ loadsInFlight'[b] = 0 )
              => InLoaded(plugins'[a]) /\ InLoadError(plugins'[b])]_vars

\* Two plugin loads were in flight together; one succeeded, the other failed.
C3_Witness ==
  /\ loadsOverlapped
  /\ numLoadingPlugins = 0
  /\ \E a \in PluginKeys, b \in PluginKeys :
       /\ a # b
       /\ loadOutcome[a] = "ok" /\ loadOutcome[b] = "fail"
       /\ InLoaded(plugins[a]) /\ InLoadError(plugins[b])

\* C4: no load request is issued for an item that is loaded.
C4_NoReloadOnceLoaded ==
  [][\A i \in Items : StateOf(i).isLoaded => ~LoadIssued(i)]_vars

\* A loaded item was switched off and is on again.
C4_Witness ==
  \E i \in Items :
    i \in toggledOffLoaded /\ ItemEnabled(i) /\ StateOf(i).isLoaded

\* C5 (as stated): isLoaded implies not isLoading, and a completing load finds
\* its entry loading and leaves it not loading, with exactly one of isLoaded and
\* didError set by the attempt.
C5_LoadAttemptTransitions ==
  /\ [](\A i \in Items : StateOf(i).isLoaded => ~StateOf(i).isLoading)
  /\ [][\A i \in Items :
          LoadCompletes(i) =>
            /\ StateOf(i).isLoading
            /\ ~StateOf(i)'.isLoading
            /\ \/ StateOf(i)'.isLoaded /\ StateOf(i)'.didError = StateOf(i).didError
               \/ StateOf(i)'.didError /\ StateOf(i)'.isLoaded = StateOf(i).isLoaded]_vars

\* This step issues a registerEnvPreset request / completes one.
RegisterIssued == registerInFlight' > registerInFlight

RegisterCompletes == registerInFlight' < registerInFlight

\* The compile requests this step dispatches.
Dispatched == compiling' \ compiling

\* C6 (as stated): registerEnvPreset is issued at most once, and only by the
\* successful completion of the env preset's load.
C6_RegisterOnceAfterLoad ==
  [][RegisterIssued =>
       /\ registerIssued = 0
       /\ LoadCompletes(EnvKey)
       /\ loadOutcome'[EnvKey] = "ok"]_vars

\* C7 (as stated): a compile request that makes the worker use the env preset is
\* dispatched only after a registerEnvPreset request has completed.
C7_EnvCompileAfterRegister ==
  [][\A r \in Dispatched : UsesEnvPreset(r) => registerDone]_vars

\* The labels a compile request may list, given the state at dispatch.
UsableLabels ==
  {Label(k) : k \in {j \in PresetKeys : presets[j].isEnabled /\ presets[j].isLoaded}}
  \cup (IF plugins["babili-standalone"].isEnabled
           /\ plugins["babili-standalone"].isLoaded
        THEN {"babili"} ELSE {})

\* C8: a failed load changes nothing but its own entry and cancels no other
\* load; the close of a debounce window with code dispatches a request whatever
\* has failed; and every request dispatched lists only presets and plugins that
\* are enabled and loaded at dispatch, with the env config only when the env
\* preset is loaded.
C8_CompileUsesLoadedSubset ==
  [][
      /\ \A r \in Dispatched :
           /\ \A n \in 1..Len(r.presets) : r.presets[n] \in UsableLabels
           /\ r.envConfig # None => envPresetState.isLoaded
      /\ (WindowCloses /\ timer # "") => Dispatched # {}
      /\ \A i \in Items :
           (LoadCompletes(i) /\ loadOutcome'[i] = "fail") =>
              \A j \in Items \ {i} :
                 /\ loadsInFlight'[j] = loadsInFlight[j]
                 /\ StateOf(j)' = StateOf(j)
  ]_vars

\* babili is enabled and its load has failed; the latest request, dispatched
\* after a failure, is in flight and lists the loaded preset only.
C8_Witness ==
  /\ dispatchedAfterFailure
  /\ plugins["babili-standalone"].isEnabled
  /\ InLoadError(plugins["babili-standalone"])
  /\ \E r \in compiling : r.seq = nextSeq - 1 /\ r.presets = <<"es2015">>

\* No plugin load is in flight after this step.
NoPluginLoadLeft == \A j \in PluginKeys : loadsInFlight'[j] = 0

\* C9 (as stated): every successful plugin load completion leaves a recompile
\* of the current code pending.
C9_EveryLoadRecompiles ==
  [][\A k \in PluginKeys :
       (LoadCompletes(k) /\ loadOutcome'[k] = "ok") => timer' = code']_vars

\* C9 (amended): a plugin load completion, successful or not, calls _updateCode
\* with the current code exactly when it leaves no other plugin load in flight;
\* a completion that leaves one in flight schedules nothing.
C9_LastLoadRecompiles ==
  [][\A k \in PluginKeys :
       LoadCompletes(k) =>
         IF NoPluginLoadLeft
         THEN timer' = code /\ code' = code
         ELSE timer' = timer /\ code' = code]_vars

\* A plugin has loaded while the other plugin's load is still in flight, and no
\* recompile is pending.
C9_Witness ==
  /\ loadsOverlapped
  /\ timer = Null
  /\ \E k \in PluginKeys, j \in PluginKeys :
       /\ loadOutcome[k] = "ok" /\ loadsInFlight[k] = 0
       /\ loadsInFlight[j] > 0

\* C10 (as stated): the recompile that a plugin load completion or a
\* registerEnvPreset completion triggers is dispatched in that very step.
C10_ImmediateRecompile ==
  [][( /\ code # ""
       /\ \/ RegisterCompletes
          \/ \E k \in PluginKeys : LoadCompletes(k) /\ NoPluginLoadLeft )
     => Dispatched # {}]_vars

\* C11: a load request for the runtime polyfill is issued only by a handler that
\* leaves evaluation enabled (runtimePolyfillState.isEnabled), and every load
\* request of the polyfill goes to the sandboxed iframe, never to the worker.
C11_PolyfillLazyIntoIframe ==
  /\ [](loadTargets[PolyfillKey] \subseteq {"iframe"})
  /\ [][LoadIssued(PolyfillKey) =>
          /\ runtimePolyfillState'.isEnabled
          /\ loadTargets'[PolyfillKey] = {"iframe"}]_vars

\* Evaluation is enabled and the polyfill's load, sent to the iframe, is in
\* flight, while a plugin's load went to the worker.
C11_Witness ==
  /\ runtimePolyfillState.isEnabled
  /\ loadsInFlight[PolyfillKey] > 0
  /\ loadTargets[PolyfillKey] = {"iframe"}
  /\ \E k \in PluginKeys : loadTargets[k] = {"worker"}

\* The compile requests whose result this step applies.
Applied == compiling \ compiling'

\* C12 (as stated): every successful compile that was dispatched and is applied
\* with evaluation enabled is executed in the sandbox when its result is
\* applied, and an execution that throws sets evalErrorMessage.
C12_EveryCompileIsExecuted ==
  [][\A r \in Applied :
       (r.sourceMap /\ runtimePolyfillState.isEnabled /\ compiled' # None) =>
          /\ executedSeq' = r.seq
          /\ ExecuteThrows(compiled') => evalErrorMessage' # Null]_vars

\* C12 (amended): a request asks for evaluation exactly when the polyfill is
\* enabled and loaded at dispatch; a successful result of such a request is
\* executed when it is applied, any other result is not, and the completion of
\* the polyfill's load executes the compiled code the state holds, if any.  An
\* execution that throws sets evalErrorMessage, one that does not clears it,
\* and compiled, ast and compileErrorMessage are the compile's own either way.
C12_LoadedEvaluationExecutes ==
  [][
      /\ \A r \in Dispatched :
           r.evaluate = (runtimePolyfillState.isEnabled /\ runtimePolyfillState.isLoaded)
      /\ \A r \in Applied :
           LET out == compile(r.code, r, WorkerRun)
           IN  /\ compiled' = out.compiled
               /\ ast' = out.ast
               /\ compileErrorMessage' = out.compileErrorMessage
               /\ IF r.evaluate /\ out.compiled # None
                  THEN /\ executedSeq' = r.seq /\ executedBy' = "compile"
                       /\ (evalErrorMessage' # Null) = ExecuteThrows(out.compiled)
                  ELSE /\ UNCHANGED executionVars
                       /\ evalErrorMessage' = Null
      /\ LoadCompletes(PolyfillKey) =>
           /\ UNCHANGED <<compiled, ast, compileErrorMessage>>
           /\ IF compiled # None
              THEN /\ executedSeq' = appliedSeq /\ executedBy' = "polyfill"
                   /\ (evalErrorMessage' # Null) = ExecuteThrows(compiled)
              ELSE UNCHANGED <<evalErrorMessage, executionVars>>
  ]_vars

\* A compile dispatched with the polyfill enabled and loaded has succeeded, its
\* output was executed when it was applied and threw: the evaluation error is
\* set next to the compiled output, and there is no compile error.
C12_Witness ==
  /\ executedBy = "compile"
  /\ executedSeq = appliedSeq
  /\ runtimePolyfillState.isEnabled /\ runtimePolyfillState.isLoaded
  /\ compiled # None /\ ast # None
  /\ compileErrorMessage = Null
  /\ evalErrorMessage # Null

\* The two shapes of an outcome of compile.
IsSuccess(out) ==
  /\ out.compiled # None
  /\ out.ast # None
  /\ out.compileErrorMessage = Null

IsFailure(out) ==
  /\ out.compiled = None
  /\ out.ast = None
  /\ out.transformTime = None
  /\ out.envPresetDebugInfo = Null
  /\ out.sourceMap = None
  /\ out.compileErrorMessage # Null
  /\ out.compileErrorMessage # ""

\* The debug callback of the env preset fires in a call with this config.
CallbackFires(cfg) == UsesEnvPreset(cfg) /\ cfg.debugEnvPreset

\* C13: every outcome of compile is a success record or a failure record, never
\* a mix; when Babel.transform throws, the outcome is the failure record with
\* the error's message, also when the debug callback fired before the throw;
\* when it does not throw, the outcome is a success record.
C13_SuccessOrFailure ==
  \A n \in 1..Len(calls) :
    LET out == calls[n].outcome
        c == message[1].code
    IN  /\ IsSuccess(out) \/ IsFailure(out)
        /\ ~(IsSuccess(out) /\ IsFailure(out))
        /\ TransformThrows(c) =>
             IsFailure(out) /\ out.compileErrorMessage = TransformError(c)
        /\ ~TransformThrows(c) => IsSuccess(out)

\* compile was called on a program that does not parse, with a config whose
\* debug callback fired before the throw, and returned the failure record.
C13_Witness ==
  /\ calls # <<>>
  /\ TransformThrows(message[1].code)
  /\ CallbackFires(calls[1].given)
  /\ IsFailure(calls[1].outcome)

\* An outcome without its transformTime.
Untimed(out) == [out EXCEPT !.transformTime = None]

\* C14 (as stated): two calls of compile in a row with the same code and the
\* same config object yield outcomes equal in every field but transformTime,
\* hand Babel.transform the same preset list, and leave the config as given.
C14_CompileIsIdempotent ==
  /\ \A n \in 1..Len(calls) :
       message[1].config = calls[n].given
  /\ Len(calls) >= 2 =>
       /\ Untimed(calls[1].outcome) = Untimed(calls[2].outcome)
       /\ calls[1].received = calls[2].received

\* The plugin and preset keys that are enabled, the env preset among them.
EnabledKeys ==
  {k \in PluginKeys : plugins[k].isEnabled}
  \cup {k \in PresetKeys : presets[k].isEnabled}
  \cup (IF envConfig.isEnvPresetEnabled THEN {EnvKey} ELSE {})

\* The env-target fields.
EnvTargets ==
  <<envConfig.browsers, envConfig.isElectronEnabled, envConfig.electron,
    envConfig.isNodeEnabled, envConfig.node>>

\* This step restores the session from the record _persistState wrote for the
\* state it starts from.
RestoresThisState ==
  /\ babel = "loaded" /\ babel' = "loading"
  /\ storage = Some(Payload)

\* C15 (as stated): restoring a session from the record written by
\* _persistState gives the same set of enabled plugin and preset keys and the
\* same env-target fields.
C15_PersistRoundTrip ==
  [][RestoresThisState =>
       /\ EnabledKeys' = EnabledKeys
       /\ EnvTargets' = EnvTargets]_vars

\* The entries of a comma-separated string, read off its positions: a segment
\* starts after position a, a comma or the start of the string, and runs to
\* the next comma or the end; its entry is what lies between its first and
\* its last character that is not a space.
SegmentStarts(s) == {0} \cup {i \in 1..Len(s) : s[i] = ","}

SegmentEnd(s, a) ==
  CHOOSE b \in a + 1..Len(s) + 1 :
    /\ b = Len(s) + 1 \/ s[b] = ","
    /\ \A i \in a + 1..b - 1 : s[i] # ","

Inked(s, a) == {i \in a + 1..SegmentEnd(s, a) - 1 : s[i] # " "}

Lowest(S) == CHOOSE i \in S : \A j \in S : i <= j

Highest(S) == CHOOSE i \in S : \A j \in S : i >= j

\* list holds the trimmed entries of s that are not empty, in order.
HoldsEntries(list, s) ==
  LET kept == {a \in SegmentStarts(s) : Inked(s, a) # {}}
  IN  /\ Len(list) = Cardinality(kept)
      /\ \A a \in kept :
           list[Cardinality({x \in kept : x <= a})]
             = SubSeq(s, Lowest(Inked(s, a)), Highest(Inked(s, a)))

\* C16: when the config carries an enabled env config, compile hands
\* Babel.transform the config's presets followed by exactly one env entry, whose
\* useBuiltIns is true exactly when config.useBuiltIns is true and
\* config.evaluate is false and whose targets.browsers holds the entries of the
\* browsers string, trimmed, in order, the empty ones dropped (the key is not
\* set for the empty string); otherwise it hands over the presets unchanged.
C16_EnvPresetEntry ==
  calls # <<>> =>
    LET cfg == calls[1].given
        list == calls[1].received
        n == Len(cfg.presets)
    IN  IF cfg.envConfig # None /\ cfg.envConfig[1].isEnvPresetEnabled
        THEN /\ Len(list) = n + 1
             /\ SubSeq(list, 1, n) = cfg.presets
             /\ list[n + 1][1] = "env"
             /\ list[n + 1][2].useBuiltIns = (cfg.useBuiltIns /\ ~cfg.evaluate)
             /\ LET browsers == cfg.envConfig[1].browsers
                    target == list[n + 1][2].targets.browsers
                IN  IF browsers = <<>> THEN target = None
                    ELSE target # None /\ HoldsEntries(target[1], browsers)
        ELSE list = cfg.presets

\* compile was called with browsers "a,b" (and with " a,") in an enabled env
\* config, useBuiltIns set and no evaluation: the entry lists a then b (a).
C16_Witness ==
  /\ calls # <<>>
  /\ LET cfg == calls[1].given
         list == calls[1].received
     IN  /\ cfg.envConfig # None
         /\ cfg.envConfig[1].isEnvPresetEnabled
         /\ cfg.useBuiltIns /\ ~cfg.evaluate
         /\ cfg.presets = <<"es2015">>
         /\ \/ /\ cfg.envConfig[1].browsers = <<"a", ",", "b">>
               /\ list[2][2].targets.browsers = Some(<< <<"a">>, <<"b">> >>)
            \/ /\ cfg.envConfig[1].browsers = <<" ", "a", ",">>
               /\ list[2][2].targets.browsers = Some(<< <<"a">> >>)
         /\ list[2][2].useBuiltIns

\* C17 (as stated): no item has two load requests in flight, and the env
\* preset's load requests never lead to two registerEnvPreset requests in flight.
C17_OneLoadInFlight ==
  /\ \A i \in Items : loadsInFlight[i] <= 1
  /\ registerInFlight <= 1

\* The plugin load requests issued and not completed yet.
PluginLoadsInFlight ==
  Cardinality({pair \in PluginKeys \X (1..MaxInFlight) : pair[2] <= loadsInFlight[pair[1]]})

\* C18: _numLoadingPlugins is never negative and counts the plugin load requests
\* that are in flight; a plugin load completion, successful or failed, calls
\* _updateCode with the current code when it brings the counter to 0 and
\* schedules nothing when it does not.
C18_NumLoadingPlugins ==
  /\ [](numLoadingPlugins >= 0 /\ numLoadingPlugins = PluginLoadsInFlight)
  /\ [][\A k \in PluginKeys :
          LoadCompletes(k) =>
            /\ numLoadingPlugins' = numLoadingPlugins - 1
            /\ loadOutcome'[k] \in {"ok", "fail"}
            /\ IF numLoadingPlugins' = 0
               THEN timer' = code /\ code' = code /\ burstCalls' >= 1
               ELSE UNCHANGED <<timer, code, burstCalls>>]_vars

\* Two plugin loads were counted together; the one that completed last failed,
\* brought the counter back to 0 and left a recompile of the code pending.
C18_Witness ==
  /\ loadsOverlapped
  /\ numLoadingPlugins = 0
  /\ \A k \in PluginKeys : loadsInFlight[k] = 0 /\ loadOutcome[k] = "fail"
  /\ timer = code
  /\ burstCalls = 1

\* Nothing has been asked of the worker or the loader, and nothing persisted.
NothingIssued ==
  /\ compiling = {}
  /\ nextSeq = 1
  /\ \A i \in Items : loadsInFlight[i] = 0 /\ loadTargets[i] = {}
  /\ registerInFlight = 0
  /\ registerIssued = 0
  /\ storage = None
  /\ query = None

\* C19: as long as the compiler has not finished loading successfully, no
\* compile, load or registerEnvPreset request has been issued and nothing has
\* been persisted; a failed compiler load is final, so after it none ever is.
C19_NothingBeforeBabel ==
  /\ [](babel # "loaded" => NothingIssued)
  /\ [][babel = "error" => babel' = "error"]_vars
  /\ [][(babel = "loading" /\ ~NothingIssued') => babel' = "loaded"]_vars

\* The compiler has failed to load in a session that has code to compile, and
\* nothing was issued.
C19_Witness ==
  /\ babel = "error"
  /\ code # ""
  /\ NothingIssued
  /\ compiled = None

\* This step calls _compile with empty code: the debounce window closes on the
\* empty string, or _setupBabel succeeds in a session without code.
EmptyCompileFromTimer == WindowCloses /\ timer = ""

EmptyCompileFromSetup == babel = "loading" /\ babel' = "loaded" /\ code = ""

\* entry is what old may become by the start of a load, and nothing else.
SameButLoading(entry, old) == [entry EXCEPT !.isLoading = old.isLoading] = old

\* C20: a call of _compile with empty code sends no compile request, resets
\* compiled, ast, transformTime, compileErrorMessage, envPresetDebugInfo,
\* evalErrorMessage and sourceMap to null and leaves code, presets and env
\* config alone, and the plugin, env-preset and polyfill entries too but for
\* the loads its callback starts; the callback runs: _persistState writes the
\* payload of the state with the empty code (debounced call), or
\* _checkForUnloadedPlugins starts the loads that are due (_setupBabel).
C20_EmptyCodeCompile ==
  [][(EmptyCompileFromTimer \/ EmptyCompileFromSetup) =>
       /\ compiling' = compiling
       /\ nextSeq' = nextSeq
       /\ compiled' = None /\ ast' = None /\ transformTime' = None
       /\ compileErrorMessage' = Null /\ envPresetDebugInfo' = Null
       /\ evalErrorMessage' = Null /\ sourceMap' = None
       /\ UNCHANGED <<code, presets, envConfig>>
       /\ \A i \in Items : SameButLoading(StateOf(i)', StateOf(i))
       /\ EmptyCompileFromTimer =>
            /\ storage' = Some(Payload') /\ query' = Some(Payload')
            /\ Payload'.code = ""
            /\ UNCHANGED <<plugins, envPresetState, runtimePolyfillState>>
       /\ EmptyCompileFromSetup =>
            /\ UNCHANGED <<storage, query>>
            /\ \A k \in PluginKeys :
                 (plugins[k].isEnabled /\ ~plugins[k].isLoaded /\ ~plugins[k].isLoading)
                 => LoadIssued(k)]_vars

\* A compile result had been applied; then the code was emptied and the
\* debounced _compile ran: the outcome is reset, nothing is in flight and the
\* payload with the empty code is persisted.
C20_Witness ==
  /\ appliedSeq > 0
  /\ code = "" /\ timer = Null
  /\ compiling = {}
  /\ compiled = None /\ ast = None /\ compileErrorMessage = Null
  /\ storage # None /\ storage = query
  /\ storage[1].code = ""

\* The labels in a persisted presets string.
PersistedLabels(str) == {str[i] : i \in 1..Len(str)} \ {","}

\* The labels the enabled flags of the state stand for.
EnabledLabels ==
  {Label(k) : k \in {j \in PresetKeys : presets[j].isEnabled}}
  \cup (IF plugins["babili-standalone"].isEnabled THEN {"babili"} ELSE {})
  \cup (IF envConfig.isEnvPresetEnabled THEN {"env"} ELSE {})

\* What _persistState wrote last holds the code and the enabled flags of the
\* state as it is now.
LatestPersisted ==
  /\ storage # None
  /\ storage[1].code = code
  /\ storage[1].babili = plugins["babili-standalone"].isEnabled
  /\ storage[1].evaluate = runtimePolyfillState.isEnabled
  /\ storage[1].browsers = envConfig.browsers
  /\ PersistedLabels(storage[1].presets) = EnabledLabels

====
